---- MODULE Spec2Model ----
(***************************************************************************)
(* Model of app.py: the PostgreSQL query plan analyzer.                    *)
(*                                                                         *)
(* A text (Python str) is a sequence of one-character strings.  A          *)
(* recommendation is a sequence of pieces: each literal part of the        *)
(* Python string is one piece, and every formatted field ({table},         *)
(* {max_buckets}, ...) contributes its characters one by one.              *)
(*                                                                         *)
(* analyze_query_plan also fills the local dict operator_costs (lines      *)
(* 45-53).  It is never read and never returned, so it is left out.        *)
(***************************************************************************)
EXTENDS Integers, Sequences, FiniteSets, TLC

VARIABLES pc, arg, result, method, form, status, recommendations, query_plan, query, log

vars == <<pc, arg, result, method, form, status, recommendations, query_plan, query, log>>

-----------------------------------------------------------------------------
(* Text primitives of Python and of the re module.                         *)

Digits == {"0", "1", "2", "3", "4", "5", "6", "7", "8", "9"}

Letters ==
    {"a", "b", "c", "d", "e", "f", "g", "h", "i", "j", "k", "l", "m",
     "n", "o", "p", "q", "r", "s", "t", "u", "v", "w", "x", "y", "z",
     "A", "B", "C", "D", "E", "F", "G", "H", "I", "J", "K", "L", "M",
     "N", "O", "P", "Q", "R", "S", "T", "U", "V", "W", "X", "Y", "Z"}

\* The class \w of the regular expressions.
WordChars == Letters \cup Digits \cup {"_"}

\* text[i:].startswith(sub), with i counted from 1.
StartsWithAt(text, i, sub) ==
    /\ i + Len(sub) - 1 <= Len(text)
    /\ \A k \in 1..Len(sub) : text[i + k - 1] = sub[k]

\* Python's `sub in text`.
Contains(sub, text) ==
    \E i \in 1..(Len(text) - Len(sub) + 1) : StartsWithAt(text, i, sub)

\* Index of the last character of the longest run of characters of class
\* cls that starts at i; i - 1 when text[i] is not in cls.
RECURSIVE RunEnd(_, _, _)
RunEnd(text, i, cls) ==
    IF i <= Len(text) /\ text[i] \in cls
    THEN RunEnd(text, i + 1, cls)
    ELSE i - 1

\* re.findall(prefix + "(cls+)", text): the captured groups of the
\* successive non-overlapping matches, scanning from position i.
RECURSIVE FindAllFrom(_, _, _, _)
FindAllFrom(prefix, cls, text, i) ==
    IF i > Len(text) THEN <<>>
    ELSE LET b == i + Len(prefix)
             e == RunEnd(text, b, cls)
         IN  IF StartsWithAt(text, i, prefix) /\ e >= b
             THEN <<SubSeq(text, b, e)>> \o FindAllFrom(prefix, cls, text, e + 1)
             ELSE FindAllFrom(prefix, cls, text, i + 1)

FindAll(prefix, cls, text) == FindAllFrom(prefix, cls, text, 1)

\* str.count(sub) counted from position i: non-overlapping occurrences.
RECURSIVE CountFrom(_, _, _)
CountFrom(text, sub, i) ==
    IF i + Len(sub) - 1 > Len(text) THEN 0
    ELSE IF StartsWithAt(text, i, sub)
         THEN 1 + CountFrom(text, sub, i + Len(sub))
         ELSE CountFrom(text, sub, i + 1)

Count(text, sub) == CountFrom(text, sub, 1)

DigitValue(c) ==
    CASE c = "0" -> 0 [] c = "1" -> 1 [] c = "2" -> 2 [] c = "3" -> 3
      [] c = "4" -> 4 [] c = "5" -> 5 [] c = "6" -> 6 [] c = "7" -> 7
      [] c = "8" -> 8 [] c = "9" -> 9

DigitChar(d) == <<"0", "1", "2", "3", "4", "5", "6", "7", "8", "9">>[d + 1]

\* int(s) for a string of decimal digits.
RECURSIVE ParseInt(_)
ParseInt(s) ==
    IF s = <<>> THEN 0
    ELSE 10 * ParseInt(SubSeq(s, 1, Len(s) - 1)) + DigitValue(s[Len(s)])

\* str(n) for n >= 0, as an f-string formats it.
RECURSIVE Str(_)
Str(n) ==
    IF n < 10 THEN <<DigitChar(n)>>
    ELSE Str(n \div 10) \o <<DigitChar(n % 10)>>

\* MaxInt with the first match taken for the largest.
MaxInt_First(matches) == ParseInt(matches[1])

\* max(int(match) for match in matches), matches not empty.
RECURSIVE MaxInt(_)
MaxInt(matches) ==
    IF Len(matches) = 1 THEN ParseInt(matches[1])
    ELSE LET m == MaxInt(Tail(matches))
             h == ParseInt(matches[1])
         IN  IF h >= m THEN h ELSE m

\* The concatenation of the block f[i] of every item of the sequence.
RECURSIVE FlatMap(_, _)
FlatMap(items, f) ==
    IF items = <<>> THEN <<>>
    ELSE f[items[1]] \o FlatMap(Tail(items), f)

-----------------------------------------------------------------------------
(* analyze_query_plan                                                      *)

OpSeqScan == <<"S", "e", "q", " ", "S", "c", "a", "n">>
OpIndexScan == <<"I", "n", "d", "e", "x", " ", "S", "c", "a", "n">>
OpIndexOnlyScan == <<"I", "n", "d", "e", "x", " ", "O", "n", "l", "y", " ", "S", "c", "a", "n">>
OpBitmapHeapScan == <<"B", "i", "t", "m", "a", "p", " ", "H", "e", "a", "p", " ", "S", "c", "a", "n">>
OpHashJoin == <<"H", "a", "s", "h", " ", "J", "o", "i", "n">>
OpNestedLoop == <<"N", "e", "s", "t", "e", "d", " ", "L", "o", "o", "p">>
OpMergeJoin == <<"M", "e", "r", "g", "e", " ", "J", "o", "i", "n">>
OpSort == <<"S", "o", "r", "t">>
OpAggregate == <<"A", "g", "g", "r", "e", "g", "a", "t", "e">>
OpMaterialize == <<"M", "a", "t", "e", "r", "i", "a", "l", "i", "z", "e">>
OpParallel == <<"P", "a", "r", "a", "l", "l", "e", "l">>

\* operators[operator] is not empty: the loop of lines 46-48 appends the
\* name exactly when it occurs in the plan.
OperatorFound(operator, plan) == Contains(operator, plan)

BucketThreshold == 100000
NestedLoopThreshold == 2
RowsRemovedThreshold == 10000

SeqScanPrefix == <<"S", "e", "q", " ", "S", "c", "a", "n", " ", "o", "n", " ">>
BucketPrefix == <<"b", "u", "c", "k", "e", "t", "s", "=">>
FilterPrefix == <<"R", "o", "w", "s", " ", "R", "e", "m", "o", "v", "e", "d", " ", "b", "y", " ", "F", "i", "l", "t", "e", "r", ":", " ">>

\* The character ` cannot be written in a string of this language: this
\* piece stands for it wherever a recommendation holds one.
Backquote == "[backquote]"

SeqScanSuggestion(table) ==
    <<"Consider adding an index to table '">> \o table \o <<"' to avoid sequential scans.">>

SeqScanBlock(table) ==
    << SeqScanSuggestion(table),
       <<"- Sequential scans read every row in the table, which can be inefficient for large datasets.">>,
       <<"- They are useful when the entire table needs to be processed or when the table is small.">>,
       <<"- However, for larger tables, consider using indexes to speed up data retrieval.">>,
       <<"- Suggested Index: ", Backquote, "CREATE INDEX idx_">> \o table \o <<"_on_column ON ">> \o table \o <<" (column_name);", Backquote>> >>

\* SeqScanTables with a table named once however often it is scanned.
SeqScanTables_Dedup(plan) ==
    LET all == FindAll(SeqScanPrefix, WordChars, plan)
        kept == SelectSeq([i \in DOMAIN all |-> i],
                          LAMBDA i : \A j \in 1..(i - 1) : all[j] # all[i])
    IN  [k \in DOMAIN kept |-> all[kept[k]]]

SeqScanTables(plan) == FindAll(SeqScanPrefix, WordChars, plan)

SeqScanRecs(plan) ==
    IF OperatorFound(OpSeqScan, plan)
    THEN LET tables == SeqScanTables(plan)
         IN  FlatMap(tables, [t \in {tables[i] : i \in DOMAIN tables} |-> SeqScanBlock(t)])
    ELSE <<>>

IndexScanRecs(plan) ==
    IF OperatorFound(OpIndexScan, plan)
    THEN << <<"Index Scan detected. This is generally efficient, but consider:">>,
            <<"- Ensuring the index is selective enough to avoid scanning too many rows.">>,
            <<"- Analyzing the index usage to confirm it is being utilized effectively.">> >>
    ELSE <<>>

IndexOnlyScanRecs(plan) ==
    IF OperatorFound(OpIndexOnlyScan, plan)
    THEN << <<"Index Only Scan detected. This is optimal as it avoids accessing the heap.">>,
            <<"- Ensure that the index covers all columns needed for the query to maximize efficiency.">>,
            <<"- Regularly update statistics to maintain index effectiveness.">> >>
    ELSE <<>>

BitmapHeapScanRecs(plan) ==
    IF OperatorFound(OpBitmapHeapScan, plan)
    THEN << <<"Bitmap Heap Scan detected. While better than sequential scan, consider:">>,
            <<"- Creating a covering index to enable Index Only Scan">>,
            <<"- Reviewing the query to see if it can be optimized to use an Index Scan">>,
            <<"- Investigate the use of bitmap indexes if applicable.">>,
            <<"- Suggested Index: ", Backquote, "CREATE INDEX idx_bitmap ON table_name (column_name);", Backquote>> >>
    ELSE <<>>

HashJoinWarning(max_buckets) ==
    <<"Large hash join detected (">> \o Str(max_buckets) \o <<" buckets). Consider:">>

HashJoinBlock(max_buckets) ==
    << HashJoinWarning(max_buckets),
       <<"- Increasing work_mem (current buckets: ">> \o Str(max_buckets) \o <<")">>,
       <<"- Reviewing join conditions to reduce the size of the hash table">>,
       <<"- Using an index-based join if possible">>,
       <<"- Analyze the distribution of data in the involved tables.">>,
       <<"- If the hash table exceeds the ", Backquote, "work_mem", Backquote, " limit, it may spill to disk, processing data in batches, which can slow down execution. Consider increasing ", Backquote, "work_mem", Backquote, " to allow hashing in a single batch for better performance. [Learn more](https://pganalyze.com/docs/explain/insights/hash-batches)">> >>

HashJoinRecs(plan) ==
    IF OperatorFound(OpHashJoin, plan)
    THEN LET matches == FindAll(BucketPrefix, Digits, plan)
         IN  IF matches # <<>> /\ MaxInt(matches) > BucketThreshold
             THEN HashJoinBlock(MaxInt(matches))
             ELSE <<>>
    ELSE <<>>

NestedLoopWarning(nested_loops) ==
    Str(nested_loops) \o <<" nested loops detected. Consider the following:">>

NestedLoopBlock(nested_loops) ==
    << NestedLoopWarning(nested_loops),
       <<"- Use JOIN clauses instead of subqueries where possible">>,
       <<"- Ensure proper indexing on join columns">>,
       <<"- Review query structure to minimize nested operations">>,
       <<"- Investigate the possibility of rewriting the query to reduce complexity.">> >>

\* NestedLoopRecs with the threshold reached at two loops already.
NestedLoopRecs_AtLeast(plan) ==
    IF OperatorFound(OpNestedLoop, plan) /\ Count(plan, OpNestedLoop) >= NestedLoopThreshold
    THEN NestedLoopBlock(Count(plan, OpNestedLoop))
    ELSE <<>>

NestedLoopRecs(plan) ==
    IF OperatorFound(OpNestedLoop, plan) /\ Count(plan, OpNestedLoop) > NestedLoopThreshold
    THEN NestedLoopBlock(Count(plan, OpNestedLoop))
    ELSE <<>>

MergeJoinRecs(plan) ==
    IF OperatorFound(OpMergeJoin, plan)
    THEN << <<"Merge Join detected. This is efficient for sorted data, but consider:">>,
            <<"- Ensuring that the input data is sorted to avoid additional sorting overhead.">>,
            <<"- Reviewing the join conditions to confirm they are optimal for merge joins.">> >>
    ELSE <<>>

SortRecs(plan) ==
    IF OperatorFound(OpSort, plan)
    THEN << <<"Sort operation detected. Consider:">>,
            <<"- Adding an index that matches the sort order to avoid in-memory sorting.">>,
            <<"- Analyzing the data distribution to determine if sorting can be optimized.">> >>
    ELSE <<>>

AggregateRecs(plan) ==
    IF OperatorFound(OpAggregate, plan)
    THEN << <<"Aggregate operation detected. Consider:">>,
            <<"- Ensuring that the aggregation is performed on indexed columns to improve performance.">>,
            <<"- Reviewing the query to see if it can be simplified to reduce the number of rows processed.">> >>
    ELSE <<>>

MaterializeRecs(plan) ==
    IF OperatorFound(OpMaterialize, plan)
    THEN << <<"Materialization detected. Consider:">>,
            <<"- Reviewing subqueries to see if they can be simplified or eliminated">>,
            <<"- Increasing work_mem to allow larger operations in memory">>,
            <<"- Evaluate if the materialized results can be cached for repeated queries.">> >>
    ELSE <<>>

NoParallelWarning == <<"No parallel operations detected. Consider:">>

NoParallelSubRecs ==
    << <<"- Increasing max_parallel_workers_per_gather">>,
       <<"- Ensuring tables are large enough to benefit from parallelism">>,
       <<"- Reviewing queries to allow for parallelization">>,
       <<"- Consider using parallel query execution for large datasets.">>,
       <<"- Parallel operations can significantly improve performance for large queries by utilizing multiple CPU cores.">> >>

\* ParallelRecs with the test inverted.
ParallelRecs_Inverted(plan) ==
    IF Contains(OpParallel, plan)
    THEN <<NoParallelWarning>> \o NoParallelSubRecs
    ELSE <<>>

ParallelRecs(plan) ==
    IF ~Contains(OpParallel, plan)
    THEN <<NoParallelWarning>> \o NoParallelSubRecs
    ELSE <<>>

RowsRemovedWarning(max_removed) ==
    <<"High number of rows removed by filter (">> \o Str(max_removed) \o <<"). Consider:">>

RowsRemovedBlock(max_removed) ==
    << RowsRemovedWarning(max_removed),
       <<"- Adding indexes to support the filter conditions">>,
       <<"- Reviewing data distribution and updating statistics">>,
       <<"- Rewriting the query to filter data earlier in the plan">>,
       <<"- Analyze the filter conditions to ensure they are selective enough.">> >>

\* RowsRemovedRecs with the threshold itself counted as high.
RowsRemovedRecs_AtLeast(plan) ==
    LET matches == FindAll(FilterPrefix, Digits, plan)
    IN  IF matches # <<>> /\ MaxInt(matches) >= RowsRemovedThreshold
        THEN RowsRemovedBlock(MaxInt(matches))
        ELSE <<>>

RowsRemovedRecs(plan) ==
    LET matches == FindAll(FilterPrefix, Digits, plan)
    IN  IF matches # <<>> /\ MaxInt(matches) > RowsRemovedThreshold
        THEN RowsRemovedBlock(MaxInt(matches))
        ELSE <<>>

analyze_query_plan(plan) ==
    SeqScanRecs(plan) \o IndexScanRecs(plan) \o IndexOnlyScanRecs(plan)
      \o BitmapHeapScanRecs(plan) \o HashJoinRecs(plan) \o NestedLoopRecs(plan)
      \o MergeJoinRecs(plan) \o SortRecs(plan) \o AggregateRecs(plan)
      \o MaterializeRecs(plan) \o ParallelRecs(plan) \o RowsRemovedRecs(plan)

-----------------------------------------------------------------------------
(* analyze_query                                                           *)

KwSelectStar == <<"S", "E", "L", "E", "C", "T", " ", "*">>
KwJoin == <<"J", "O", "I", "N">>
KwOn == <<"O", "N">>
KwWhere == <<"W", "H", "E", "R", "E">>
KwGroupBy == <<"G", "R", "O", "U", "P", " ", "B", "Y">>
KwOrderBy == <<"O", "R", "D", "E", "R", " ", "B", "Y">>
KwLimit == <<"L", "I", "M", "I", "T">>
KwDistinct == <<"D", "I", "S", "T", "I", "N", "C", "T">>

QueryHeader == <<"### Query Analysis Recommendations">>

SelectStarRec ==
    <<"- Avoid using ", Backquote, "SELECT *", Backquote, ". Specify only the columns you need to reduce data transfer and improve performance.">>

\* SelectStarRecs with one recommendation for each occurrence.
SelectStarRecs_PerOccurrence(q) ==
    [i \in 1..Count(q, KwSelectStar) |-> SelectStarRec]

SelectStarRecs(q) ==
    IF Contains(KwSelectStar, q) THEN <<SelectStarRec>> ELSE <<>>

JoinRecs(q) ==
    IF Contains(KwJoin, q)
    THEN << <<"- Ensure that JOIN conditions are properly indexed to improve join performance.">> >>
           \o (IF ~Contains(KwOn, q)
               THEN << <<"- Make sure to include ", Backquote, "ON", Backquote, " conditions for JOINs to avoid Cartesian products.">> >>
               ELSE <<>>)
    ELSE <<>>

WhereRecs(q) ==
    IF Contains(KwWhere, q)
    THEN << <<"- Review the WHERE clause to ensure it filters data efficiently.">>,
            <<"- Consider adding indexes on columns used in the WHERE clause to speed up filtering.">> >>
    ELSE <<>>

GroupByRecs(q) ==
    IF Contains(KwGroupBy, q)
    THEN << <<"- Ensure that the columns in the GROUP BY clause are indexed if possible to improve aggregation performance.">> >>
    ELSE <<>>

OrderByRecs(q) ==
    IF Contains(KwOrderBy, q)
    THEN << <<"- If using ORDER BY, consider adding an index that matches the sort order to avoid in-memory sorting.">> >>
    ELSE <<>>

LimitRecs(q) ==
    IF Contains(KwLimit, q)
    THEN << <<"- Using ", Backquote, "LIMIT", Backquote, " can improve performance by reducing the number of rows processed. Ensure it is used appropriately.">> >>
    ELSE <<>>

DistinctRecs(q) ==
    IF Contains(KwDistinct, q)
    THEN << <<"- Using ", Backquote, "DISTINCT", Backquote, " can be costly. Ensure it is necessary and consider if it can be avoided.">> >>
    ELSE <<>>

GeneralRecs ==
    << <<"- Regularly update statistics on your tables to help the query planner make informed decisions.">>,
       <<"- Use ", Backquote, "EXPLAIN", Backquote, " to analyze the execution plan of your query and identify potential bottlenecks.">>,
       <<"- Consider breaking complex queries into smaller, simpler queries if performance issues arise.">> >>

analyze_query(q) ==
    <<QueryHeader>> \o SelectStarRecs(q) \o JoinRecs(q) \o WhereRecs(q)
      \o GroupByRecs(q) \o OrderByRecs(q) \o LimitRecs(q) \o DistinctRecs(q)
      \o GeneralRecs

-----------------------------------------------------------------------------
(* index: the handler of GET / and POST /                                  *)

\* A field of request.form: absent from the submitted form, or given with
\* its text.
Absent == [given |-> FALSE, value |-> <<>>]
Given(text) == [given |-> TRUE, value |-> text]

\* request.form of a request that submits no field (every GET).
EmptyForm == [query_plan |-> Absent, query |-> Absent]

\* LocalRecommendations with the list kept from one call to the next.
LocalRecommendations_Shared(previous) == previous

\* `recommendations = []`: a list local to the call, whatever an earlier
\* call left behind.
LocalRecommendations(previous) == <<>>

\* request.form[...] of an absent field raises BadRequestKeyError, which the
\* framework answers with 400 Bad Request; the template is not rendered.
BadRequest ==
    [status |-> 400, recommendations |-> <<>>, query_plan |-> <<>>, query |-> <<>>]

\* PostRecommendations with the query analysed before the plan.
PostRecommendations_QueryFirst(recs, plan_text, query_text) ==
    recs \o (IF query_text # <<>> THEN analyze_query(query_text) ELSE <<>>)
         \o analyze_query_plan(plan_text)

\* The recommendations of a POST whose two fields are given.
PostRecommendations(recs, plan_text, query_text) ==
    recs \o analyze_query_plan(plan_text)
         \o (IF query_text # <<>> THEN analyze_query(query_text) ELSE <<>>)

\* The response of index() to a request; previous is the list of the call
\* before.
index(m, f, previous) ==
    LET recs == LocalRecommendations(previous)
    IN  IF m = "POST"
        THEN IF ~f.query_plan.given \/ ~f.query.given
             THEN BadRequest
             ELSE [status |-> 200,
                   recommendations |->
                       PostRecommendations(recs, f.query_plan.value, f.query.value),
                   query_plan |-> f.query_plan.value,
                   query |-> f.query.value]
        ELSE [status |-> 200, recommendations |-> recs,
              query_plan |-> <<>>, query |-> <<>>]

-----------------------------------------------------------------------------
(* Inputs                                                                  *)

MaxFrags == 3
MaxQueryFrags == 3
MaxRequests == 3

\* Every text made of at most n fragments of frags, one after the other.
RECURSIVE Concats(_, _)
Concats(frags, n) ==
    IF n = 0 THEN {<<>>}
    ELSE LET shorter == Concats(frags, n - 1)
         IN  shorter \cup {s \o f : s \in shorter, f \in frags}

FragsSeqScan ==
    { <<"S", "e", "q", " ", "S", "c", "a", "n", " ", "o", "n", " ", "o", "r", "d", "e", "r", "s">>, <<"S", "e", "q", " ", "S", "c", "a", "n", " ", "o", "n", " ">>, <<"_", "a", "r", "c", "h", "i", "v", "e">>, <<"\n">>, <<"t", "1">> }

FragsHashJoin ==
    { <<"H", "a", "s", "h", " ", "J", "o", "i", "n">>, <<"b", "u", "c", "k", "e", "t", "s", "=", "1", "0", "0", "0", "0", "0">>, <<"b", "u", "c", "k", "e", "t", "s", "=", "1", "5", "0", "0", "0", "0">>, <<"0">>, <<" ">> }

FragsNestedLoop ==
    { <<"N", "e", "s", "t", "e", "d", " ", "L", "o", "o", "p">>, <<"N", "e", "s", "t", "e", "d", " ", "L", "o", "o", "p", " ", "-", ">", " ", "N", "e", "s", "t", "e", "d", " ", "L", "o", "o", "p">>, <<"N", "e", "s", "t", "e", "d">>, <<" ", "L", "o", "o", "p">> }

FragsFilter ==
    { <<"R", "o", "w", "s", " ", "R", "e", "m", "o", "v", "e", "d", " ", "b", "y", " ", "F", "i", "l", "t", "e", "r", ":", " ", "1", "0", "0", "0", "0">>, <<"R", "o", "w", "s", " ", "R", "e", "m", "o", "v", "e", "d", " ", "b", "y", " ", "F", "i", "l", "t", "e", "r", ":", " ", "2", "5", "0", "0", "0">>,
      <<"R", "o", "w", "s", " ", "R", "e", "m", "o", "v", "e", "d", " ", "b", "y", " ", "F", "i", "l", "t", "e", "r", ":", " ">>, <<"0">>, <<" ">> }

FragsParallel ==
    { <<"P", "a", "r", "a", "l", "l", "e", "l">>, <<"P", "a", "r", "a">>, <<"l", "l", "e", "l">>, <<"p", "a", "r", "a", "l", "l", "e", "l">>, <<" ", "S", "e", "q", " ", "S", "c", "a", "n", " ", "o", "n", " ", "o", "r", "d", "e", "r", "s">> }

FragsOperators ==
    { <<"I", "n", "d", "e", "x", " ", "S", "c", "a", "n">>, <<"I", "n", "d", "e", "x", " ", "O", "n", "l", "y", " ", "S", "c", "a", "n">>, <<"B", "i", "t", "m", "a", "p", " ", "H", "e", "a", "p", " ", "S", "c", "a", "n">>, <<"M", "e", "r", "g", "e", " ", "J", "o", "i", "n">>,
      <<"S", "o", "r", "t">>, <<"A", "g", "g", "r", "e", "g", "a", "t", "e">>, <<"M", "a", "t", "e", "r", "i", "a", "l", "i", "z", "e">> }

\* Lines of the kind EXPLAIN prints, one feature of the analysis each.
FragsLines ==
    { <<"H", "a", "s", "h", " ", "J", "o", "i", "n", " ", " ", "(", "c", "o", "s", "t", "=", "1", ".", "0", "0", ".", ".", "2", ".", "0", "0", " ", "r", "o", "w", "s", "=", "1", ")", "\n">>, <<" ", " ", "b", "u", "c", "k", "e", "t", "s", "=", "1", "5", "0", "0", "0", "0", "\n">>,
      <<" ", " ", "-", ">", " ", " ", "S", "e", "q", " ", "S", "c", "a", "n", " ", "o", "n", " ", "o", "r", "d", "e", "r", "s", " ", "o", "\n">>, <<" ", " ", "R", "o", "w", "s", " ", "R", "e", "m", "o", "v", "e", "d", " ", "b", "y", " ", "F", "i", "l", "t", "e", "r", ":", " ", "2", "5", "0", "0", "0", "\n">>,
      <<" ", " ", "-", ">", " ", " ", "P", "a", "r", "a", "l", "l", "e", "l", " ", "S", "e", "q", " ", "S", "c", "a", "n", " ", "o", "n", " ", "t", "1", "\n">>, <<"N", "e", "s", "t", "e", "d", " ", "L", "o", "o", "p", "\n">> }

PlanInputs ==
    Concats(FragsSeqScan, MaxFrags) \cup Concats(FragsHashJoin, MaxFrags)
      \cup Concats(FragsNestedLoop, MaxFrags) \cup Concats(FragsFilter, MaxFrags)
      \cup Concats(FragsParallel, MaxFrags) \cup Concats(FragsOperators, MaxFrags)
      \cup Concats(FragsLines, MaxFrags)

FragsSelect ==
    { <<"S", "E", "L", "E", "C", "T", " ", "*">>, <<"S", "E", "L", "E", "C", "T", " ">>, <<"*">>, <<" ", "F", "R", "O", "M", " ", "t">>, <<"s", "e", "l", "e", "c", "t", " ", "*">> }

FragsClauses ==
    { <<" ", "J", "O", "I", "N", " ", "u">>, <<" ", "O", "N", " ">>, <<" ", "W", "H", "E", "R", "E", " ", "x">>, <<" ", "G", "R", "O", "U", "P", " ", "B", "Y", " ">>, <<" ", "O", "R", "D", "E", "R", " ", "B", "Y", " ">>,
      <<" ", "L", "I", "M", "I", "T", " ", "1">>, <<" ", "D", "I", "S", "T", "I", "N", "C", "T", " ">> }

QueryInputs ==
    Concats(FragsSelect, MaxQueryFrags) \cup Concats(FragsClauses, MaxQueryFrags)

FormPlans ==
    { <<>>, <<"H", "a", "s", "h", " ", "J", "o", "i", "n", " ", "b", "u", "c", "k", "e", "t", "s", "=", "1", "5", "0", "0", "0", "0">>, <<"P", "a", "r", "a", "l", "l", "e", "l", " ", "S", "e", "q", " ", "S", "c", "a", "n", " ", "o", "n", " ", "o", "r", "d", "e", "r", "s">> }

FormQueries ==
    { <<>>, <<"S", "E", "L", "E", "C", "T", " ", "*", " ", "F", "R", "O", "M", " ", "t">>, <<"S", "E", "L", "E", "C", "T", " ", "a", " ", "F", "R", "O", "M", " ", "t", " ", "J", "O", "I", "N", " ", "u", " ", "W", "H", "E", "R", "E", " ", "x">> }

FormFields(texts) == {Absent} \cup {Given(t) : t \in texts}

FormInputs == [query_plan : FormFields(FormPlans), query : FormFields(FormQueries)]

-----------------------------------------------------------------------------
(* The server: any sequence of at most MaxRequests requests.               *)

NoCall == /\ arg = <<>>
          /\ result = <<>>

Init ==
    /\ pc = "serving"
    /\ NoCall
    /\ method = "NONE"
    /\ form = EmptyForm
    /\ status = 0
    /\ recommendations = <<>>
    /\ query_plan = <<>>
    /\ query = <<>>
    /\ log = <<>>

Respond(m, f) ==
    LET r == index(m, f, recommendations)
    IN  /\ method' = m
        /\ form' = f
        /\ status' = r.status
        /\ recommendations' = r.recommendations
        /\ query_plan' = r.query_plan
        /\ query' = r.query
        /\ log' = Append(log, [method |-> m, form |-> f, status |-> r.status,
                               recommendations |-> r.recommendations,
                               query_plan |-> r.query_plan, query |-> r.query])
        /\ UNCHANGED <<pc, arg, result>>

Get ==
    /\ pc = "serving"
    /\ Len(log) < MaxRequests
    /\ Respond("GET", EmptyForm)

Post ==
    /\ pc = "serving"
    /\ Len(log) < MaxRequests
    /\ \E f \in FormInputs : Respond("POST", f)

Next == Get \/ Post

Spec == Init /\ [][Next]_vars

-----------------------------------------------------------------------------
(* analyze_query_plan applied to one plan text.                            *)

NoRequest ==
    /\ method = "NONE"
    /\ form = EmptyForm
    /\ status = 0
    /\ recommendations = <<>>
    /\ query_plan = <<>>
    /\ query = <<>>
    /\ log = <<>>

InitPlan ==
    /\ pc = "call"
    /\ arg \in PlanInputs
    /\ result = <<>>
    /\ NoRequest

CallAnalyzeQueryPlan ==
    /\ pc = "call"
    /\ result' = analyze_query_plan(arg)
    /\ pc' = "returned"
    /\ UNCHANGED <<arg, method, form, status, recommendations, query_plan, query, log>>

NextPlan == CallAnalyzeQueryPlan

SpecPlan == InitPlan /\ [][NextPlan]_vars

(* analyze_query applied to one query text.                                *)

InitQuery ==
    /\ pc = "call"
    /\ arg \in QueryInputs
    /\ result = <<>>
    /\ NoRequest

CallAnalyzeQuery ==
    /\ pc = "call"
    /\ result' = analyze_query(arg)
    /\ pc' = "returned"
    /\ UNCHANGED <<arg, method, form, status, recommendations, query_plan, query, log>>

NextQuery == CallAnalyzeQuery

SpecQuery == InitQuery /\ [][NextQuery]_vars

-----------------------------------------------------------------------------
(* What the claims speak of, read off the texts themselves.                *)

Range(s) == {s[i] : i \in DOMAIN s}

\* The positions at which sub occurs in text.
OccurrencesOf(sub, text) ==
    {i \in 1..(Len(text) - Len(sub) + 1) : SubSeq(text, i, i + Len(sub) - 1) = sub}

\* The last position of the longest run of cls characters that starts at b;
\* b - 1 when there is none.
RunLast(text, b, cls) ==
    CHOOSE e \in (b - 1)..Len(text) :
        /\ \A k \in b..e : text[k] \in cls
        /\ e = Len(text) \/ text[e + 1] \notin cls

\* The positions at which prefix occurs with a cls character right after it.
EntriesOf(prefix, cls, text) ==
    {i \in OccurrencesOf(prefix, text) :
        RunLast(text, i + Len(prefix), cls) >= i + Len(prefix)}

\* The longest run of cls characters after the prefix at position i.
RunAfter(prefix, cls, text, i) ==
    SubSeq(text, i + Len(prefix), RunLast(text, i + Len(prefix), cls))

\* The numbers written right after prefix in text.
NumbersAfter(prefix, text) ==
    {ParseInt(RunAfter(prefix, Digits, text, i)) : i \in EntriesOf(prefix, Digits, text)}

SetMax(S) == CHOOSE m \in S : \A x \in S : x <= m

RECURSIVE Ascending(_)
Ascending(S) ==
    IF S = {} THEN <<>>
    ELSE LET m == CHOOSE x \in S : \A y \in S : x <= y
         IN  <<m>> \o Ascending(S \ {m})

HashJoinWarningsIn(recs) ==
    {r \in Range(recs) : r[1] = "Large hash join detected ("}

LargeBuckets(plan) == {n \in NumbersAfter(BucketPrefix, plan) : n > 100000}

NestedLoopWarningsIn(recs) ==
    {r \in Range(recs) : r[Len(r)] = " nested loops detected. Consider the following:"}

RowsRemovedWarningsIn(recs) ==
    {r \in Range(recs) : r[1] = "High number of rows removed by filter ("}

\* The table suggestions of a list, in the order of the list.
SuggestionsIn(recs) ==
    SelectSeq(recs, LAMBDA r : r[1] = "Consider adding an index to table '")

\* The occurrences of "Seq Scan on <table>" counted from left to right, an
\* occurrence that begins inside the table name of a counted one left out.
SeqScanMatches(plan) ==
    LET cands == EntriesOf(SeqScanPrefix, WordChars, plan)
    IN  CHOOSE S \in SUBSET cands :
            \A i \in cands :
                i \in S <=> ~\E j \in S :
                               /\ j < i
                               /\ i <= RunLast(plan, j + Len(SeqScanPrefix), WordChars)

-----------------------------------------------------------------------------
(* The claims.                                                             *)

\* C1: a POST whose plan text and query text are both the empty string
\* yields an empty recommendation list.
C1_EmptyPostYieldsNothing ==
    (method = "POST" /\ form = [query_plan |-> Given(<<>>), query |-> Given(<<>>)])
        => recommendations = <<>>

C3_MissingFieldDefaultsToEmpty ==
    method = "POST"
        => /\ status = 200
           /\ recommendations =
                  analyze_query_plan(form.query_plan.value)
                    \o (IF form.query.value # <<>>
                        THEN analyze_query(form.query.value) ELSE <<>>)

\* C4: a plan without "Parallel" gets the no-parallelism warning exactly
\* once, with its five sub-recommendations right after it; a plan with
\* "Parallel" does not get the warning.
C4_NoParallelWarning ==
    pc = "returned"
        => LET at == {i \in DOMAIN result : result[i] = NoParallelWarning}
           IN  IF OccurrencesOf(OpParallel, arg) = {}
               THEN \E i \in at :
                        /\ at = {i}
                        /\ i + 5 <= Len(result)
                        /\ SubSeq(result, i + 1, i + 5) = NoParallelSubRecs
               ELSE at = {}

C4_Witness ==
    /\ pc = "returned"
    /\ OccurrencesOf(OpParallel, arg) = {}
    /\ OccurrencesOf(OpSeqScan, arg) # {}
    /\ result[1] # NoParallelWarning
    /\ NoParallelWarning \in Range(result)

\* C5 (as stated): for every "Seq Scan on T" in the plan the list holds the
\* suggestion naming T, and it holds one suggestion for each occurrence of
\* "Seq Scan on <table>".  T is read as the whole table name, the longest
\* run of word characters after "Seq Scan on ": the reading most favourable
\* to the claim (with T a shorter run, "Seq Scan on orders_archive" would
\* have to yield a suggestion naming "orders").
C5_SuggestionForEveryOccurrence ==
    pc = "returned"
        => LET cands == EntriesOf(SeqScanPrefix, WordChars, arg)
           IN  /\ \A i \in cands :
                     SeqScanSuggestion(RunAfter(SeqScanPrefix, WordChars, arg, i))
                         \in Range(result)
               /\ Len(SuggestionsIn(result)) = Cardinality(cands)

\* C5 (amended): the table suggestions of the list are, in plan order and
\* with repeated names repeated, those of the occurrences of "Seq Scan on "
\* followed by a word character, counted from left to right without overlap,
\* each naming the whole run of word characters that follows.
C5_SuggestionPerMatch ==
    pc = "returned"
        => LET at == Ascending(SeqScanMatches(arg))
           IN  SuggestionsIn(result) =
                   [k \in DOMAIN at |->
                       SeqScanSuggestion(RunAfter(SeqScanPrefix, WordChars, arg, at[k]))]

C5_Witness ==
    /\ pc = "returned"
    /\ Cardinality(SeqScanMatches(arg)) = 2
    /\ Len(SuggestionsIn(result)) = 2
    /\ SuggestionsIn(result)[1] = SuggestionsIn(result)[2]

\* C6: a plan with k >= 3 occurrences of "Nested Loop" gets the nested loop
\* recommendation stating exactly k; a plan with 0, 1 or 2 gets none.
C6_NestedLoopCount ==
    pc = "returned"
        => LET k == Cardinality(OccurrencesOf(OpNestedLoop, arg))
           IN  IF k >= 3
               THEN NestedLoopWarningsIn(result) = {NestedLoopWarning(k)}
               ELSE NestedLoopWarningsIn(result) = {}

C6_Witness ==
    /\ pc = "returned"
    /\ Cardinality(OccurrencesOf(OpNestedLoop, arg)) >= 4
    /\ NestedLoopWarningsIn(result) # {}

\* C7: a query with "SELECT *", however often, gets the avoidance
\* recommendation exactly once; a query without it does not get it.
C7_SelectStarOnce ==
    pc = "returned"
        => Cardinality({i \in DOMAIN result : result[i] = SelectStarRec})
               = (IF OccurrencesOf(KwSelectStar, arg) # {} THEN 1 ELSE 0)

C7_Witness ==
    /\ pc = "returned"
    /\ Cardinality(OccurrencesOf(KwSelectStar, arg)) >= 2
    /\ SelectStarRec \in Range(result)

\* C8: the rows-removed warning is given if and only if some
\* "Rows Removed by Filter: N" entry has N > 10000, and it states the largest
\* N of the plan; a largest N of exactly 10000 gives no warning.
C8_RowsRemovedWarning ==
    pc = "returned"
        => LET counts == NumbersAfter(FilterPrefix, arg)
           IN  IF \E n \in counts : n > 10000
               THEN RowsRemovedWarningsIn(result) = {RowsRemovedWarning(SetMax(counts))}
               ELSE RowsRemovedWarningsIn(result) = {}

C8_Witness ==
    /\ pc = "returned"
    /\ Cardinality(NumbersAfter(FilterPrefix, arg)) >= 2
    /\ RowsRemovedWarningsIn(result) # {}

\* C9: the recommendations of a POST are those of the plan analysis followed
\* by those of the query analysis; the query analysis gives nothing for an
\* empty query, and for any other query it gives the header first and the
\* three general recommendations last.
C9_PlanThenQuery ==
    (method = "POST" /\ status = 200)
        => LET plan_recs == analyze_query_plan(form.query_plan.value)
               n == Len(plan_recs)
               rest == SubSeq(recommendations, n + 1, Len(recommendations))
           IN  /\ Len(recommendations) >= n
               /\ SubSeq(recommendations, 1, n) = plan_recs
               /\ IF form.query.value = <<>>
                  THEN rest = <<>>
                  ELSE /\ rest = analyze_query(form.query.value)
                       /\ Len(rest) >= 4
                       /\ rest[1] = QueryHeader
                       /\ SubSeq(rest, Len(rest) - 2, Len(rest)) = GeneralRecs

C9_Witness ==
    /\ method = "POST"
    /\ status = 200
    /\ form.query.value # <<>>
    /\ recommendations[1] = HashJoinWarning(150000)
    /\ QueryHeader \in Range(recommendations)

\* C10: every GET is answered with an empty list and empty texts, and two
\* POSTs with the same fields are answered with the same list, whatever
\* requests were served before them.
C10_NoCarryOver ==
    /\ \A i \in DOMAIN log :
           log[i].method = "GET"
               => /\ log[i].recommendations = <<>>
                  /\ log[i].query_plan = <<>>
                  /\ log[i].query = <<>>
    /\ \A i, j \in DOMAIN log :
           (log[i].method = "POST" /\ log[j].method = "POST" /\ log[i].form = log[j].form)
               => log[i].recommendations = log[j].recommendations

C10_Witness ==
    /\ Len(log) = 3
    /\ log[1].method = "POST"
    /\ log[1].recommendations # <<>>
    /\ log[2].method = "GET"
    /\ log[3].method = "POST"
    /\ log[3].form = log[1].form

====
